---- MODULE Spec2Model ----
(***************************************************************************)
(* DataBuffer<T> of velox/dwio/common/DataBuffer.h as a state machine.     *)
(*                                                                         *)
(* Two instances ("A", "B") live over one memory pool and one external     *)
(* velox::Buffer.  uint64_t is scaled down to WordBits bits, so that the   *)
(* unsigned wrap-around of the code's additions and of sizeInBytes is part *)
(* of the model.  Memory is modelled per element: a block of b bytes holds *)
(* b / sizeof(T) elements.                                                 *)
(***************************************************************************)
EXTENDS Integers, Sequences, FiniteSets, TLC

\* Width of uint64_t in the model (the code's is 64).
WordBits == 4
Modulus == 2 ^ WordBits
Word == 0 .. (Modulus - 1)

\* sizeof(T).
ElemSize == 2

\* Largest request, in bytes, that the pool can satisfy.
PoolLimit == 6

\* The values of T.
Values == {0, 1}
NumValues == Cardinality(Values)

\* Largest byte length of the external velox::Buffer.
MaxExtBytes == 5

\* Largest "small" argument of an operation.  The arguments also take the
\* values at which the arithmetic wraps: the first element count whose byte
\* size wraps to a non-zero size, and the largest word.
MaxArg == 2
Wraps == {(Modulus \div ElemSize) + 1, Modulus - 1}
Args == (0 .. MaxArg) \cup Wraps
Offsets == (0 .. (MaxArg - 1)) \cup {Modulus - 1}
Items == 0 .. MaxArg

Inst == {"A", "B"}

\* Pointers: nullptr, the pool's blocks, the external buffer's memory.
Null == 0
Blocks == {1, 2}
ExtPtr == 3
Mem == Blocks \cup {ExtPtr}

VARIABLES
  state,      \* per instance: "none" (not constructed), "live", "dead"
  pool_,      \* per instance: TRUE iff pool_ != nullptr
  veloxRef_,  \* per instance: TRUE iff veloxRef_ != nullptr (aliasing mode)
  buf_,       \* per instance: the pointer buf_
  size_,      \* per instance
  capacity_,  \* per instance
  heap,       \* per block of memory: live, its byte size, its elements
  veloxBuf,   \* the external velox::Buffer: made, data pointer, byte size
  last        \* the last call: operation, instance, result, pool function called

vars == <<state, pool_, veloxRef_, buf_, size_, capacity_, heap, veloxBuf, last>>

----------------------------------------------------------------------------
(* Arithmetic of uint64_t.                                                 *)

Add(a, b) == (a + b) % Modulus
Sub(a, b) == (a - b + Modulus) % Modulus
Max(a, b) == IF a >= b THEN a ELSE b
Min(a, b) == IF a <= b THEN a ELSE b

sizeInBytesNoWrap(items) == ElemSize * items
sizeInBytes(items) == (ElemSize * items) % Modulus

\* newSize + ((newSize + 1) / 2) + 1
HeadroomNoWrap(newSize) == newSize + ((newSize + 1) \div 2) + 1
Headroom(newSize) == Add(Add(newSize, Add(newSize, 1) \div 2), 1)

----------------------------------------------------------------------------
(* Memory and the pool (velox::memory::MemoryPool, an interface).          *)

NoBlock == [live |-> FALSE, bytes |-> 0, cells |-> <<>>]
NoCall == [fn |-> "none", ptr |-> Null, old |-> 0, new |-> 0]

CellsIn(bytes) == bytes \div ElemSize
\* An element that was never written holds an indeterminate value: Indet
\* stands for all the values that a read of it may give.
Indet == 0 - 1
Fill(n) == [k \in 1 .. n |-> Indet]
Zeros(n) == [k \in 1 .. n |-> 0]
\* The pool hands out the lowest address it has.
FreeIds(h) ==
  LET free == {p \in Blocks : ~h[p].live}
  IN {p \in free : \A q \in free : p <= q}

\* The elements reachable through pointer p.
CellsAt(h, p) == IF p \in Mem /\ h[p].live THEN h[p].cells ELSE <<>>

Block(bytes, cells) == [live |-> TRUE, bytes |-> bytes, cells |-> cells]

\* The bytes the pool has handed out and not got back.
RECURSIVE SumBytes(_, _)
SumBytes(h, S) ==
  IF S = {} THEN 0
  ELSE LET p == CHOOSE x \in S : TRUE IN h[p].bytes + SumBytes(h, S \ {p})

Used(h) == SumBytes(h, Blocks)

\* The pool tracks and bounds its memory usage: a request that takes the
\* usage above PoolLimit fails, and any request for memory may fail.
Fits(h, bytes) == Used(h) + bytes <= PoolLimit

\* allocateZeroFilled(1, bytes): null, or a fresh block of zero bytes.
AllocateZeroFilled(h, bytes) ==
  {[ptr |-> Null, heap |-> h]}
    \cup {[ptr |-> p, heap |-> [h EXCEPT ![p] = Block(bytes, Zeros(CellsIn(bytes)))]] :
            p \in IF Fits(h, bytes) THEN FreeIds(h) ELSE {}}

\* allocate(bytes): null, or a fresh block whose content is indeterminate.
Allocate(h, bytes) ==
  {[ptr |-> Null, heap |-> h]}
    \cup {[ptr |-> p, heap |-> [h EXCEPT ![p] = Block(bytes, Fill(CellsIn(bytes)))]] :
            p \in (IF Fits(h, bytes) THEN FreeIds(h) ELSE {})}

\* reallocate(p, oldBytes, newBytes): null with the old block untouched (or
\* released, for a request of zero bytes), or a block, in place or moved,
\* that keeps the first min(oldBytes, newBytes) bytes.
ReallocKept(h, p, oldBytes, newBytes) ==
  SubSeq(CellsAt(h, p), 1,
         Min(Len(CellsAt(h, p)), Min(CellsIn(oldBytes), CellsIn(newBytes))))

ReallocGrown(h, p, oldBytes, newBytes) ==
  ReallocKept(h, p, oldBytes, newBytes)
    \o Fill(CellsIn(newBytes) - Len(ReallocKept(h, p, oldBytes, newBytes)))

Reallocate(h, p, oldBytes, newBytes) ==
  {[ptr |-> Null, heap |-> IF newBytes = 0 THEN [h EXCEPT ![p] = NoBlock] ELSE h]}
    \cup {[ptr |-> q,
           heap |-> [h EXCEPT ![p] = NoBlock,
                              ![q] = Block(newBytes, ReallocGrown(h, p, oldBytes, newBytes))]] :
            q \in (IF Fits([h EXCEPT ![p] = NoBlock], newBytes)
                   THEN {p} \cup FreeIds(h) ELSE {})}

\* free(p, bytes)
Free(h, p, bytes) == [h EXCEPT ![p] = NoBlock]

----------------------------------------------------------------------------
(* One call on one instance, as a record that the steps of the method      *)
(* transform: the instance's fields, the memory, the pool call made, and   *)
(* how the call ended ("ok", "fatal": a VELOX_CHECK failed, "crash": the   *)
(* process died of undefined behaviour).  ub records that the call ran     *)
(* into undefined behaviour.                                               *)

Call(i) ==
  [buf |-> buf_[i], size |-> size_[i], cap |-> capacity_[i], heap |-> heap,
   call |-> NoCall, ub |-> FALSE, res |-> "ok"]

\* Sequencing: step F runs on every outcome of S that is still running.
Then(S, F(_)) == UNION {IF m.res = "ok" THEN F(m) ELSE {m} : m \in S}

Fatal(m) == [m EXCEPT !.res = "fatal"]

SetSize(m, n) == {[m EXCEPT !.size = n]}

\* cells with vals written from the 0-based index off on, as far as they fit.
Written(cells, off, vals) ==
  [k \in 1 .. Len(cells) |->
     IF k > off /\ k <= off + Len(vals) THEN vals[k - off] ELSE cells[k]]

InBounds(m, off, n) == m.buf \in Mem /\ off + n <= Len(CellsAt(m.heap, m.buf))

LiveCells(h) == {pk \in Mem \X (1 .. (Max(PoolLimit, MaxExtBytes) \div ElemSize)) :
                   h[pk[1]].live /\ pk[2] <= Len(h[pk[1]].cells)}

\* A store of vals to data() + off (memcpy, memset, buf_[off] = value).
\* Outside the block it is undefined behaviour: the part inside the block is
\* written, and the rest is lost, or lands in some element of live memory,
\* or kills the process.
Store(m, off, vals) ==
  IF Len(vals) = 0 THEN {m}
  ELSE IF InBounds(m, off, Len(vals))
  THEN {[m EXCEPT !.heap[m.buf].cells = Written(@, off, vals)]}
  ELSE LET w == IF m.buf \in Mem /\ m.heap[m.buf].live
                THEN [m EXCEPT !.heap[m.buf].cells = Written(@, off, vals), !.ub = TRUE]
                ELSE [m EXCEPT !.ub = TRUE]
       IN {w, [w EXCEPT !.res = "crash"]}
            \cup {[w EXCEPT !.heap[pk[1]].cells[pk[2]] = vals[Len(vals)]] :
                    pk \in LiveCells(w.heap)}

\* The caller's source array of an append: the pattern s, s+1, ... of values.
SrcSeq(s, n) == [k \in 1 .. n |-> (s + k - 1) % NumValues]

\* The number of elements that a memcpy or memset of sizeInBytes(items) covers.
Copied(items) == CellsIn(sizeInBytes(items))

----------------------------------------------------------------------------
(* The methods of DataBuffer, on a call record; ref is veloxRef_ != nullptr. *)

\* reserve, past its two checks: the allocation and the new capacity.
reserveGrow(m, capacity) ==
  LET newSize == sizeInBytes(capacity)
      outs == IF m.buf = Null
              THEN Allocate(m.heap, newSize)
              ELSE Reallocate(m.heap, m.buf, sizeInBytes(m.cap), newSize)
      call == IF m.buf = Null
              THEN [fn |-> "allocate", ptr |-> Null, old |-> 0, new |-> newSize]
              ELSE [fn |-> "reallocate", ptr |-> m.buf,
                    old |-> sizeInBytes(m.cap), new |-> newSize]
  IN {IF o.ptr = Null /\ newSize # 0
      THEN [m EXCEPT !.buf = Null, !.heap = o.heap, !.call = call, !.res = "fatal"]
      ELSE [m EXCEPT !.buf = o.ptr, !.cap = capacity, !.heap = o.heap, !.call = call] :
        o \in outs}

\* A reserve that reallocates to whatever capacity it is asked for.
reserveAnyCapacity(m, ref, capacity) ==
  IF ref THEN {Fatal(m)} ELSE reserveGrow(m, capacity)

\* A reserve that does not look at veloxRef_.
reserveOnReferenced(m, ref, capacity) ==
  IF capacity <= m.cap
  THEN IF m.buf = Null THEN {Fatal(m)} ELSE {m}
  ELSE reserveGrow(m, capacity)

\* A reserve that allocates again on a buffer with no data.
reserveOnNull(m, ref, capacity) ==
  IF capacity <= m.cap /\ m.buf # Null
  THEN {m}
  ELSE IF ref THEN {Fatal(m)} ELSE reserveGrow(m, capacity)

reserve(m, ref, capacity) ==
  IF capacity <= m.cap
  THEN IF m.buf = Null THEN {Fatal(m)} ELSE {m}
  ELSE IF ref
  THEN {Fatal(m)}
  ELSE reserveGrow(m, capacity)

\* An extend that reserves the new size and no headroom.
extendExact(m, ref, size) ==
  LET newSize == Add(m.size, size)
  IN IF newSize > m.cap THEN reserve(m, ref, newSize) ELSE {m}

extend(m, ref, size) ==
  LET newSize == Add(m.size, size)
  IN IF newSize > m.cap THEN reserve(m, ref, Headroom(newSize)) ELSE {m}

resize(m, ref, size) ==
  Then(Then(reserve(m, ref, size),
            LAMBDA r : IF size > r.size
                       THEN Store(r, r.size, Zeros(Copied(Sub(size, r.size))))
                       ELSE {r}),
       LAMBDA r : SetSize(r, size))

\* unsafeAppend(offset, src, items); vals are the elements the memcpy copies.
unsafeAppendAt(m, offset, vals, items) ==
  Then(IF items > 0 THEN Store(m, offset, vals) ELSE {m},
       LAMBDA r : SetSize(r, Add(offset, items)))

\* unsafeAppend(src, items)
unsafeAppendEnd(m, vals, items) ==
  IF items > 0
  THEN Then(Store(m, m.size, vals), LAMBDA r : SetSize(r, Add(r.size, items)))
  ELSE {m}

\* unsafeAppend(value)
unsafeAppendValue(m, value) ==
  Then(Store(m, m.size, <<value>>), LAMBDA r : SetSize(r, Add(r.size, 1)))

\* append(offset, src, items)
appendAt(m, ref, offset, vals, items) ==
  Then(reserve(m, ref, Add(offset, items)),
       LAMBDA r : unsafeAppendAt(r, offset, vals, items))

\* The other DataBuffer that append(offset, src, srcOffset, items) is given:
\* its size() and the elements that data() points to.
\* One of them is empty and one holds MaxArg elements.
SrcBuffers == {[size |-> n, cells |-> SrcSeq(1, n)] : n \in {0, MaxArg}}

\* The offsets of an append, into the destination and into the source: the
\* start, and the largest word.
Ends == {0, Modulus - 1}
SrcOffsets == (0 .. 1) \cup {Modulus - 1}

\* The n elements that a memcpy reads from src.data() + srcOffset; an element
\* outside the source's memory has an indeterminate value.
ReadSrc(src, srcOffset, n) ==
  [k \in 1 .. n |->
     IF srcOffset + k <= Len(src.cells) THEN src.cells[srcOffset + k] ELSE Indet]

\* append(offset, src, srcOffset, items).  A memcpy that reads outside the
\* source's memory is undefined behaviour: it copies some value, or kills
\* the process.
appendBuffer(m, ref, offset, src, srcOffset, items) ==
  IF src.size >= Add(srcOffset, items)
  THEN LET outs == appendAt(m, ref, offset,
                            ReadSrc(src, srcOffset, Copied(items)), items)
           outside == items > 0 /\ srcOffset + Copied(items) > Len(src.cells)
       IN IF outside
          THEN {IF r.res = "fatal" THEN r ELSE [r EXCEPT !.ub = TRUE] : r \in outs}
                 \cup {[r EXCEPT !.ub = TRUE, !.res = "crash"] :
                         r \in {x \in outs : x.res = "ok"}}
          ELSE outs
  ELSE {Fatal(m)}

safeSet(m, ref, offset, value) ==
  Then(Then(IF offset >= m.cap
            THEN reserve(m, ref, Max(Add(offset, 1), Headroom(m.cap)))
            ELSE {m},
            LAMBDA r : Store(r, offset, <<value>>)),
       LAMBDA r : IF offset >= r.size THEN SetSize(r, Add(offset, 1)) ELSE {r})

extendAppend(m, ref, offset, vals, items) ==
  LET newSize == Add(offset, items)
  IN Then(IF newSize > m.cap THEN reserve(m, ref, Headroom(newSize)) ELSE {m},
          LAMBDA r : unsafeAppendAt(r, offset, vals, items))

\* An append(value) that grows the capacity by one element.
appendValueByOne(m, ref, value) ==
  Then(IF m.size >= m.cap THEN reserve(m, ref, Add(m.cap, 1)) ELSE {m},
       LAMBDA r : unsafeAppendValue(r, value))

\* append(value)
appendValue(m, ref, value) ==
  Then(IF m.size >= m.cap THEN reserve(m, ref, Headroom(m.cap)) ELSE {m},
       LAMBDA r : unsafeAppendValue(r, value))

\* A clear that does not look at veloxRef_.
clearOnReferenced(m, ref) ==
  LET f == IF m.buf # Null
           THEN [m EXCEPT !.heap = Free(m.heap, m.buf, sizeInBytes(m.cap)),
                          !.call = [fn |-> "free", ptr |-> m.buf,
                                    old |-> sizeInBytes(m.cap), new |-> 0]]
           ELSE m
  IN {[f EXCEPT !.size = 0, !.cap = 0, !.buf = Null]}

clear(m, ref) ==
  LET f == IF ~ref /\ m.buf # Null
           THEN [m EXCEPT !.heap = Free(m.heap, m.buf, sizeInBytes(m.cap)),
                          !.call = [fn |-> "free", ptr |-> m.buf,
                                    old |-> sizeInBytes(m.cap), new |-> 0]]
           ELSE m
  IN {[f EXCEPT !.size = 0, !.cap = 0, !.buf = Null]}

----------------------------------------------------------------------------
(* The state machine.                                                      *)

Idle == [op |-> "init", inst |-> "A", res |-> "ok", fn |-> "none"]

Init ==
  /\ state = [i \in Inst |-> "none"]
  /\ pool_ = [i \in Inst |-> FALSE]
  /\ veloxRef_ = [i \in Inst |-> FALSE]
  /\ buf_ = [i \in Inst |-> Null]
  /\ size_ = [i \in Inst |-> 0]
  /\ capacity_ = [i \in Inst |-> 0]
  /\ heap = [p \in Mem |-> NoBlock]
  /\ veloxBuf = [made |-> FALSE, data |-> Null, size |-> 0]
  /\ last = Idle

Running == last.res # "crash"
Live(i) == Running /\ state[i] = "live"

\* What the state keeps of a call: the operation, how it ended, and the pool
\* function it called.
Log(i, op, m) ==
  [op |-> op, inst |-> i, res |-> m.res, fn |-> m.call.fn]

\* The content of a pool block that no instance points to (a block leaked by
\* a failed reserve) cannot be observed any more: it is kept as indeterminate.
Scrub(h, bufs) ==
  [p \in Mem |->
     IF p \in Blocks /\ h[p].live /\ (\A i \in Inst : bufs[i] # p)
     THEN [h[p] EXCEPT !.cells = Fill(Len(@))]
     ELSE h[p]]

\* Instance i takes the outcome m of a call of method op.
Commit(i, op, m) ==
  /\ buf_' = [buf_ EXCEPT ![i] = m.buf]
  /\ size_' = [size_ EXCEPT ![i] = m.size]
  /\ capacity_' = [capacity_ EXCEPT ![i] = m.cap]
  /\ heap' = Scrub(m.heap, [buf_ EXCEPT ![i] = m.buf])
  /\ last' = Log(i, op, m)

\* DataBuffer(MemoryPool&, uint64_t size), on memory h: the fields that the
\* initialisers set, and the check.
construct(h, size) ==
  {[buf |-> o.ptr, size |-> size, cap |-> size, heap |-> o.heap,
    call |-> [fn |-> "allocateZeroFilled", ptr |-> Null, old |-> 0,
              new |-> sizeInBytes(size)],
    ub |-> FALSE,
    res |-> IF o.ptr # Null \/ size = 0 THEN "ok" ELSE "fatal"] :
     o \in AllocateZeroFilled(h, sizeInBytes(size))}

\* A failed check throws out of the constructor, and no instance comes to
\* exist.
Construct(i, size) ==
  /\ Running /\ state[i] = "none"
  /\ \E m \in construct(heap, size) :
       IF m.res = "ok"
       THEN /\ Commit(i, "construct", m)
            /\ state' = [state EXCEPT ![i] = "live"]
            /\ pool_' = [pool_ EXCEPT ![i] = TRUE]
            /\ UNCHANGED <<veloxRef_, veloxBuf>>
       ELSE /\ last' = Log(i, "construct", m)
            /\ heap' = m.heap
            /\ UNCHANGED <<state, pool_, veloxRef_, buf_, size_, capacity_, veloxBuf>>

\* The content of the external buffer.
ExtCells(bytes) == [k \in 1 .. CellsIn(bytes) |-> k % NumValues]

\* The external velox::Buffer that wrap is given: the one that a live
\* instance already refers to, or a new one of any byte length, whose data
\* pointer is non-null unless it is empty.
Holders == {i \in Inst : state[i] = "live" /\ veloxRef_[i]}

Buffers ==
  IF veloxBuf.made
  THEN {veloxBuf}
  ELSE {[made |-> TRUE, data |-> d, size |-> n] :
          n \in 0 .. MaxExtBytes, d \in {Null, ExtPtr}} \ 
       {[made |-> TRUE, data |-> Null, size |-> n] : n \in 1 .. MaxExtBytes}

\* A wrap that takes the buffer's byte length for its number of elements.
WrapBytes(i) ==
  /\ Running /\ state[i] = "none"
  /\ \E buffer \in Buffers :
       /\ veloxBuf' = buffer
       /\ Commit(i, "wrap",
                 [buf |-> buffer.data, size |-> buffer.size, cap |-> buffer.size,
                  heap |-> IF veloxBuf.made THEN heap
                           ELSE [heap EXCEPT ![ExtPtr] =
                                   Block(buffer.size, ExtCells(buffer.size))],
                  call |-> NoCall, ub |-> FALSE, res |-> "ok"])
  /\ state' = [state EXCEPT ![i] = "live"]
  /\ veloxRef_' = [veloxRef_ EXCEPT ![i] = TRUE]
  /\ UNCHANGED pool_

\* wrap(buffer) -> DataBuffer(const BufferPtr&)
Wrap(i) ==
  /\ Running /\ state[i] = "none"
  /\ \E buffer \in Buffers :
       /\ veloxBuf' = buffer
       /\ Commit(i, "wrap",
                 [buf |-> buffer.data, size |-> buffer.size \div ElemSize,
                  cap |-> buffer.size \div ElemSize,
                  heap |-> IF veloxBuf.made THEN heap
                           ELSE [heap EXCEPT ![ExtPtr] =
                                   Block(buffer.size, ExtCells(buffer.size))],
                  call |-> NoCall, ub |-> FALSE, res |-> "ok"])
  /\ state' = [state EXCEPT ![i] = "live"]
  /\ veloxRef_' = [veloxRef_ EXCEPT ![i] = TRUE]
  /\ UNCHANGED pool_

\* A move constructor that leaves other.buf_ and other.capacity_ as they were.
MoveKeepsSource(i, j) ==
  /\ Live(i) /\ state[j] = "none"
  /\ state' = [state EXCEPT ![j] = "live"]
  /\ pool_' = [pool_ EXCEPT ![j] = pool_[i]]
  /\ veloxRef_' = [veloxRef_ EXCEPT ![j] = veloxRef_[i]]
  /\ buf_' = [buf_ EXCEPT ![j] = buf_[i]]
  /\ size_' = [size_ EXCEPT ![j] = size_[i], ![i] = 0]
  /\ capacity_' = [capacity_ EXCEPT ![j] = capacity_[i]]
  /\ last' = Log(i, "move", Call(i))
  /\ UNCHANGED <<heap, veloxBuf>>

\* DataBuffer(DataBuffer&& other): j is constructed from i.
Move(i, j) ==
  /\ Live(i) /\ state[j] = "none"
  /\ state' = [state EXCEPT ![j] = "live"]
  /\ pool_' = [pool_ EXCEPT ![j] = pool_[i]]
  /\ veloxRef_' = [veloxRef_ EXCEPT ![j] = veloxRef_[i]]
  /\ buf_' = [buf_ EXCEPT ![j] = buf_[i], ![i] = Null]
  /\ size_' = [size_ EXCEPT ![j] = size_[i], ![i] = 0]
  /\ capacity_' = [capacity_ EXCEPT ![j] = capacity_[i], ![i] = 0]
  /\ last' = Log(i, "move", Call(i))
  /\ UNCHANGED <<heap, veloxBuf>>

\* The process dies in a call: none of its objects exists any more.
Crash(i, op, m) ==
  /\ state' = [j \in Inst |-> "none"]
  /\ pool_' = [j \in Inst |-> FALSE]
  /\ veloxRef_' = [j \in Inst |-> FALSE]
  /\ buf_' = [j \in Inst |-> Null]
  /\ size_' = [j \in Inst |-> 0]
  /\ capacity_' = [j \in Inst |-> 0]
  /\ heap' = [p \in Mem |-> NoBlock]
  /\ veloxBuf' = [made |-> FALSE, data |-> Null, size |-> 0]
  /\ last' = Log(i, op, m)

\* A method call on a live instance.
Method(i, op, outs) ==
  /\ Live(i)
  /\ \E m \in outs :
       IF m.res = "crash"
       THEN Crash(i, op, m)
       ELSE /\ Commit(i, op, m)
            /\ UNCHANGED <<state, pool_, veloxRef_, veloxBuf>>

Reserve(i, capacity) ==
  Method(i, "reserve", reserve(Call(i), veloxRef_[i], capacity))

Extend(i, size) ==
  Method(i, "extend", extend(Call(i), veloxRef_[i], size))

Resize(i, size) ==
  Method(i, "resize", resize(Call(i), veloxRef_[i], size))

AppendAt(i, offset, s, items) ==
  Method(i, "append",
         appendAt(Call(i), veloxRef_[i], offset, SrcSeq(s, Copied(items)), items))

AppendBuffer(i, offset, src, srcOffset, items) ==
  Method(i, "appendBuffer",
         appendBuffer(Call(i), veloxRef_[i], offset, src, srcOffset, items))

SafeSet(i, offset, value) ==
  Method(i, "safeSet", safeSet(Call(i), veloxRef_[i], offset, value))

ExtendAppend(i, offset, s, items) ==
  Method(i, "extendAppend",
         extendAppend(Call(i), veloxRef_[i], offset, SrcSeq(s, Copied(items)), items))

AppendValue(i, value) ==
  Method(i, "appendValue", appendValue(Call(i), veloxRef_[i], value))

\* The unsafeAppend forms, called as their contract demands: on an owned
\* buffer with the capacity already reserved.
UnsafeAppendAt(i, offset, s, items) ==
  /\ ~veloxRef_[i] /\ offset + items <= capacity_[i]
  /\ Method(i, "unsafeAppendAt",
            unsafeAppendAt(Call(i), offset, SrcSeq(s, Copied(items)), items))

UnsafeAppendEnd(i, s, items) ==
  /\ ~veloxRef_[i] /\ size_[i] + items <= capacity_[i]
  /\ Method(i, "unsafeAppendEnd",
            unsafeAppendEnd(Call(i), SrcSeq(s, Copied(items)), items))

UnsafeAppendValue(i, value) ==
  /\ ~veloxRef_[i] /\ size_[i] + 1 <= capacity_[i]
  /\ Method(i, "unsafeAppendValue", unsafeAppendValue(Call(i), value))

Clear(i) ==
  Method(i, "clear", clear(Call(i), veloxRef_[i]))

\* ~DataBuffer(): clear(), then the members die; the external buffer is
\* released with the last reference to it.
Destroy(i) ==
  /\ Live(i)
  /\ \E m \in clear(Call(i), veloxRef_[i]) :
       Commit(i, "destroy",
              IF Holders = {i} THEN [m EXCEPT !.heap[ExtPtr] = NoBlock] ELSE m)
  /\ state' = [state EXCEPT ![i] = "dead"]
  /\ veloxBuf' = IF Holders = {i} THEN [made |-> FALSE, data |-> Null, size |-> 0]
                 ELSE veloxBuf
  /\ UNCHANGED <<pool_, veloxRef_>>

\* The program makes its buffer as A and works on it through A; it may end
\* by moving it into B, after which both are only cleared and destroyed.
Active(i) == i = "A" /\ state["B"] = "none"

Next ==
  \/ \E size \in Args : Construct("A", size)
  \/ Wrap("A")
  \/ Move("A", "B")
  \/ \E i \in Inst, capacity \in Args : Active(i) /\ Reserve(i, capacity)
  \/ \E i \in Inst, size \in Args : Active(i) /\ Extend(i, size)
  \/ \E i \in Inst, size \in Args : Active(i) /\ Resize(i, size)
  \/ \E i \in Inst, offset \in Offsets, s \in Values, items \in Items :
       Active(i) /\ AppendAt(i, offset, s, items)
  \/ \E i \in Inst, offset \in Ends, src \in SrcBuffers, srcOffset \in SrcOffsets,
          items \in Items :
       Active(i) /\ AppendBuffer(i, offset, src, srcOffset, items)
  \/ \E i \in Inst, offset \in Args, value \in Values : Active(i) /\ SafeSet(i, offset, value)
  \/ \E i \in Inst, offset \in Offsets, s \in Values, items \in Items :
       Active(i) /\ ExtendAppend(i, offset, s, items)
  \/ \E i \in Inst, value \in Values : Active(i) /\ AppendValue(i, value)
  \/ \E i \in Inst, offset \in Offsets, s \in Values, items \in Items :
       Active(i) /\ UnsafeAppendAt(i, offset, s, items)
  \/ \E i \in Inst, s \in Values, items \in Items : Active(i) /\ UnsafeAppendEnd(i, s, items)
  \/ \E i \in Inst, value \in Values : Active(i) /\ UnsafeAppendValue(i, value)
  \/ \E i \in Inst : Clear(i)
  \/ \E i \in Inst : Destroy(i)

Spec == Init /\ [][Next]_vars

----------------------------------------------------------------------------
(* The specification's statements about DataBuffer.                        *)

IsLive(i) == state[i] = "live"

\* The elements of instance i that exist in memory.
Cells(i) == CellsAt(heap, buf_[i])

\* The elements that outcome m of a call leaves in the instance's memory.
CellsOf(m) == CellsAt(m.heap, m.buf)

\* C1: after every call, 0 <= length <= capacity holds of every instance.
C1_LengthWithinCapacity ==
  \A i \in Inst : IsLive(i) => 0 <= size_[i] /\ size_[i] <= capacity_[i]

\* C2: at every observable point of every instance, data is null if and
\* only if capacity is 0.
C2_NullIffNoCapacity ==
  \A i \in Inst : IsLive(i) => (buf_[i] = Null <=> capacity_[i] = 0)

\* C3: no call lowers the capacity of an instance, except clear, the
\* destructor and being moved from, which leave it at exactly 0.
C3_CapacityStep ==
  \A i \in Inst :
    (state[i] = "live" /\ state'[i] # "none" /\ capacity_'[i] < capacity_[i])
      => /\ last'.op \in {"clear", "destroy", "move"}
         /\ last'.inst = i
         /\ capacity_'[i] = 0

C3_CapacityNeverShrinks == [][C3_CapacityStep]_vars

\* C3 happens: a safeSet has reallocated a buffer to a larger capacity.
C3_Witness ==
  /\ last.op = "safeSet" /\ last.res = "ok" /\ last.fn = "reallocate"
  /\ capacity_["A"] > 1 /\ size_["A"] > 1

\* The outcomes of every growing or writing method that instance i can be
\* called with in the current state.
Outcomes(i) ==
  LET m == Call(i)
      ref == veloxRef_[i]
  IN UNION ({reserve(m, ref, c) : c \in Args}
              \cup {extend(m, ref, n) : n \in Args}
              \cup {resize(m, ref, n) : n \in Args}
              \cup {safeSet(m, ref, o, v) : o \in Args, v \in Values}
              \cup {appendValue(m, ref, v) : v \in Values}
              \cup {appendBuffer(m, ref, o, src, so, n) :
                      o \in Ends, src \in SrcBuffers, so \in SrcOffsets, n \in Items}
              \cup UNION {{appendAt(m, ref, o, SrcSeq(sv, Copied(n)), n),
                           extendAppend(m, ref, o, SrcSeq(sv, Copied(n)), n)} :
                            o \in Offsets, sv \in Values, n \in Items})

\* C4, as the specification has it: reserve(targetCapacity) with
\* targetCapacity <= capacity succeeds in every state without a pool call
\* and without a change, and so do resize(0) and append(0, src, 0) on a
\* buffer of capacity 0.
C4_ReserveWithinCapacityIsNoOp ==
  \A i \in Inst :
    IsLive(i) =>
      /\ \A c \in Args :
           c <= capacity_[i] => reserve(Call(i), veloxRef_[i], c) = {Call(i)}
      /\ capacity_[i] = 0 =>
           /\ \A m \in resize(Call(i), veloxRef_[i], 0) : m.res = "ok"
           /\ \A m \in appendAt(Call(i), veloxRef_[i], 0, <<>>, 0) : m.res = "ok"

\* C4, amended: reserve(targetCapacity) with targetCapacity <= capacity makes
\* no pool call and changes no field in any state; it succeeds when data is
\* non-null and fails fatally when data is null.  resize(0) and
\* append(0, src, 0) on a buffer of capacity 0 fail fatally when data is
\* null, and otherwise only set the length to 0.
C4_ReserveWithinCapacity ==
  \A i \in Inst :
    IsLive(i) =>
      LET expected == IF buf_[i] = Null THEN Fatal(Call(i)) ELSE Call(i)
          emptied == IF buf_[i] = Null THEN Fatal(Call(i))
                     ELSE [Call(i) EXCEPT !.size = 0]
      IN /\ \A c \in Args :
              c <= capacity_[i] => reserve(Call(i), veloxRef_[i], c) = {expected}
         /\ capacity_[i] = 0 =>
              /\ resize(Call(i), veloxRef_[i], 0) = {emptied}
              /\ appendAt(Call(i), veloxRef_[i], 0, <<>>, 0) = {emptied}

\* C4 happens: reserve(0) has failed, without a pool call, on an owned
\* buffer that holds nothing.
C4_Witness ==
  /\ IsLive("A") /\ ~veloxRef_["A"] /\ buf_["A"] = Null /\ capacity_["A"] = 0
  /\ last.op = "reserve" /\ last.inst = "A" /\ last.res = "fatal" /\ last.fn = "none"

\* C5: on an instance in aliasing mode every call of reserve for more than
\* the current capacity fails fatally and changes nothing, be it made
\* directly or by resize, extend, append, extendAppend or safeSet; no call
\* raises the capacity of such an instance.
C5_AliasedNeverGrows ==
  \A i \in Inst :
    (IsLive(i) /\ veloxRef_[i]) =>
      LET m == Call(i)
          cap == capacity_[i]
          failed == {Fatal(m)}
      IN /\ \A c \in Args : c > cap => reserve(m, TRUE, c) = failed
         /\ \A n \in Args : n > cap => resize(m, TRUE, n) = failed
         /\ \A n \in Args :
              (Add(size_[i], n) > cap /\ Headroom(Add(size_[i], n)) > cap)
                => extend(m, TRUE, n) = failed
         /\ \A o \in Offsets, sv \in Values, n \in Items :
              /\ Add(o, n) > cap
                   => appendAt(m, TRUE, o, SrcSeq(sv, Copied(n)), n) = failed
              /\ (Add(o, n) > cap /\ Headroom(Add(o, n)) > cap)
                   => extendAppend(m, TRUE, o, SrcSeq(sv, Copied(n)), n) = failed
         /\ \A o \in Args, v \in Values :
              (o >= cap /\ Max(Add(o, 1), Headroom(cap)) > cap)
                => safeSet(m, TRUE, o, v) = failed
         /\ \A v \in Values :
              (size_[i] >= cap /\ Headroom(cap) > cap)
                => appendValue(m, TRUE, v) = failed
         /\ \A r \in Outcomes(i) : r.cap <= cap

\* C5 happens: a resize beyond the capacity of a wrapped buffer with
\* elements has failed.
C5_Witness ==
  /\ IsLive("A") /\ veloxRef_["A"] /\ capacity_["A"] >= 1 /\ buf_["A"] = ExtPtr
  /\ last.op = "resize" /\ last.inst = "A" /\ last.res = "fatal"

\* C6: an instance in aliasing mode calls no pool function, in no method,
\* clear and the destructor included.
C6_AliasedNeverCallsPool ==
  /\ \A i \in Inst :
       (IsLive(i) /\ veloxRef_[i]) =>
         \A m \in Outcomes(i) \cup clear(Call(i), veloxRef_[i]) : m.call = NoCall
  /\ (last.res # "crash" /\ state[last.inst] # "none" /\ veloxRef_[last.inst])
       => last.fn = "none"

\* C6 happens: a wrapped buffer with elements has been destroyed.
C6_Witness ==
  /\ state["A"] = "dead" /\ veloxRef_["A"] /\ state["B"] = "none"
  /\ last.op = "destroy" /\ last.inst = "A" /\ last.fn = "none"

\* C7: the move constructor leaves A empty and gives B exactly A's data
\* pointer, length, capacity and mode, without a pool call; from then on no
\* call of A reaches the pool, and the block is released by B, once.
C7_MoveStep ==
  /\ (state["B"] = "none" /\ state'["B"] = "live")
       => /\ last'.op = "move" /\ last'.fn = "none"
          /\ state'["A"] = "live" /\ buf_'["A"] = Null
          /\ size_'["A"] = 0 /\ capacity_'["A"] = 0
          /\ buf_'["B"] = buf_["A"] /\ size_'["B"] = size_["A"]
          /\ capacity_'["B"] = capacity_["A"]
          /\ veloxRef_'["B"] = veloxRef_["A"] /\ pool_'["B"] = pool_["A"]
          /\ veloxRef_'["A"] = veloxRef_["A"] /\ pool_'["A"] = pool_["A"]
          /\ heap' = heap
  /\ (state["B"] # "none" /\ last'.inst = "A") => last'.fn = "none"
  /\ (state["B"] # "none" /\ last'.fn # "none")
       => /\ last'.fn = "free" /\ last'.inst = "B"
          /\ ~veloxRef_["B"] /\ buf_["B"] \in Blocks
          /\ heap[buf_["B"]].live /\ ~heap'[buf_["B"]].live
          /\ buf_'["B"] = Null

C7_MoveTransfersOwnership == [][C7_MoveStep]_vars

\* C7 happens: B was moved from A with a block, A was destroyed, and then B
\* was destroyed and released the block.
C7_Witness ==
  /\ state["A"] = "dead" /\ state["B"] = "dead"
  /\ last.op = "destroy" /\ last.inst = "B" /\ last.fn = "free"

\* The capacity of instance i is memory that exists, and its length is
\* within it.
Backed(i) == size_[i] <= capacity_[i] /\ Len(Cells(i)) = capacity_[i]

\* A read of the element at index k gives v.
Reads(cells, k, v) == k < Len(cells) /\ cells[k + 1] = v

\* The element at index k, where it existed, is still there with its value.
Kept(old, new, k) == k < Len(old) => (k < Len(new) /\ new[k + 1] = old[k + 1])

\* C8: resize(newLength) on an owned buffer sets the length to newLength;
\* growing, every element in [old length, newLength) reads as zero and every
\* element below the old length keeps its value; not growing, the capacity
\* is unchanged and every element below newLength keeps its value.  Stated
\* of the calls that do not fail fatally, on a buffer whose capacity exists
\* in memory.
C8_ResizeZeroFills ==
  \A i \in Inst :
    (IsLive(i) /\ ~veloxRef_[i] /\ Backed(i)) =>
      \A n \in Args :
        \A m \in resize(Call(i), FALSE, n) :
          m.res # "fatal" =>
            /\ m.res = "ok" /\ ~m.ub
            /\ m.size = n
            /\ n > size_[i] =>
                 /\ \A k \in size_[i] .. (n - 1) : Reads(CellsOf(m), k, 0)
                 /\ \A k \in 0 .. (size_[i] - 1) : Kept(Cells(i), CellsOf(m), k)
            /\ n <= size_[i] =>
                 /\ m.cap = capacity_[i]
                 /\ \A k \in 0 .. (n - 1) : Kept(Cells(i), CellsOf(m), k)

\* C9: append(value) on an owned buffer with length <= capacity raises the
\* length by 1, stores value at the old length, keeps every element below
\* the old length, ends with capacity >= length, and calls the pool only
\* when the old length equals the capacity.  Stated of the calls that do not
\* fail fatally.
C9_AppendValue ==
  \A i \in Inst :
    (IsLive(i) /\ ~veloxRef_[i] /\ size_[i] <= capacity_[i]) =>
      \A v \in Values :
        \A m \in appendValue(Call(i), FALSE, v) :
          /\ m.call # NoCall => size_[i] = capacity_[i]
          /\ m.res # "fatal" =>
               /\ m.res = "ok" /\ ~m.ub
               /\ m.size = size_[i] + 1
               /\ Reads(CellsOf(m), size_[i], v)
               /\ \A k \in 0 .. (size_[i] - 1) : Kept(Cells(i), CellsOf(m), k)
               /\ m.cap >= m.size

\* C10: append(offset, sourcePtr, count) on an owned buffer ends, for every
\* offset and count, with capacity >= offset + count, length = offset +
\* count, the elements [offset, offset + count) equal to the source elements
\* in order, and every element below min(offset, old length) unchanged.
\* Stated of the calls that do not fail fatally, on a buffer whose capacity
\* exists in memory.
C10_AppendAt ==
  \A i \in Inst :
    (IsLive(i) /\ ~veloxRef_[i] /\ Backed(i)) =>
      \A o \in Offsets, sv \in Values, n \in Items :
        \A m \in appendAt(Call(i), FALSE, o, SrcSeq(sv, Copied(n)), n) :
          m.res # "fatal" =>
            /\ m.res = "ok" /\ ~m.ub
            /\ m.cap >= o + n
            /\ m.size = o + n
            /\ \A k \in 0 .. (n - 1) : Reads(CellsOf(m), o + k, SrcSeq(sv, n)[k + 1])
            /\ \A k \in 0 .. (Min(o, size_[i]) - 1) : Kept(Cells(i), CellsOf(m), k)

\* C11: safeSet(offset, value) on an owned buffer ends, for every offset,
\* with capacity >= offset + 1, the element at offset equal to value, length
\* = max(old length, offset + 1), and every other element below the old
\* length unchanged.  Stated of the calls that do not fail fatally, on a
\* buffer whose capacity exists in memory.
C11_SafeSet ==
  \A i \in Inst :
    (IsLive(i) /\ ~veloxRef_[i] /\ Backed(i)) =>
      \A o \in Args, v \in Values :
        \A m \in safeSet(Call(i), FALSE, o, v) :
          m.res # "fatal" =>
            /\ m.res = "ok" /\ ~m.ub
            /\ m.cap >= o + 1
            /\ Reads(CellsOf(m), o, v)
            /\ m.size = Max(size_[i], o + 1)
            /\ \A k \in 0 .. (size_[i] - 1) :
                 k # o => Kept(Cells(i), CellsOf(m), k)

\* C12: append(offset, otherBuffer, otherOffset, count) fails fatally, with
\* the destination's data, length and capacity unchanged and without a pool
\* call, whenever otherBuffer.length < otherOffset + count as integers.
C12_AppendBufferChecksSource ==
  \A i \in Inst :
    IsLive(i) =>
      \A o \in Ends, src \in SrcBuffers, so \in SrcOffsets, n \in Items :
        src.size < so + n
          => appendBuffer(Call(i), veloxRef_[i], o, src, so, n) = {Fatal(Call(i))}

\* C13: reserve and extend never change the length; a reserve or extend that
\* succeeds on an owned buffer leaves every element in [0, length) with its
\* value; and after extend(additional), capacity >= length + additional.
\* The elements and the capacity are stated of a buffer whose capacity
\* exists in memory.
C13_ReserveExtendFrame ==
  \A i \in Inst :
    IsLive(i) =>
      LET grown == UNION ({reserve(Call(i), veloxRef_[i], c) : c \in Args}
                            \cup {extend(Call(i), veloxRef_[i], n) : n \in Args})
      IN /\ \A m \in grown : m.size = size_[i]
         /\ (~veloxRef_[i] /\ Backed(i)) =>
              /\ \A m \in grown :
                   m.res = "ok" =>
                     \A k \in 0 .. (size_[i] - 1) : Kept(Cells(i), CellsOf(m), k)
              /\ \A n \in Args :
                   \A m \in extend(Call(i), FALSE, n) :
                     m.res = "ok" => m.cap >= size_[i] + n

\* C14: construction in owning mode with initial length n yields length =
\* capacity = n with every one of the n elements reading as zero, and fails
\* fatally when the pool returns null while n > 0.
C14_Construct ==
  Running =>
    \A n \in Args :
      \A m \in construct(heap, n) :
        /\ m.res = "ok" =>
             /\ m.size = n /\ m.cap = n
             /\ \A k \in 0 .. (n - 1) : Reads(CellsOf(m), k, 0)
        /\ (m.buf = Null /\ n > 0) => m.res = "fatal"

\* The number of elements of the external buffer: size() / sizeof(T).
SourceItems == veloxBuf.size \div ElemSize

C15_WrapStep ==
  /\ (state["A"] = "none" /\ state'["A"] = "live" /\ veloxRef_'["A"])
       => /\ last'.op = "wrap"
          /\ buf_'["A"] = veloxBuf'.data
          /\ size_'["A"] = veloxBuf'.size \div ElemSize
          /\ capacity_'["A"] = veloxBuf'.size \div ElemSize
          /\ \A k \in 0 .. (size_'["A"] - 1) :
               Reads(CellsAt(heap', buf_'["A"]), k, ExtCells(veloxBuf'.size)[k + 1])
  /\ \A i \in Inst :
       (state'[i] = "live" /\ veloxRef_'[i]) =>
         \/ capacity_'[i] = veloxBuf'.size \div ElemSize /\ buf_'[i] = veloxBuf'.data
         \/ capacity_'[i] = 0 /\ buf_'[i] = Null
  /\ \A i \in Inst :
       (state[i] = "live" /\ veloxRef_[i] /\ state'[i] = "live") =>
         /\ capacity_'[i] # capacity_[i] =>
              last'.op \in {"clear", "move"} /\ last'.inst = i
         /\ size_'[i] # size_[i] =>
              last'.op \in {"resize", "append", "appendBuffer", "extendAppend",
                            "safeSet", "appendValue", "clear", "move"}

C16_AppendGrowsGeometrically ==
  \A i \in Inst :
    (IsLive(i) /\ ~veloxRef_[i] /\ Backed(i)) =>
      \A v \in Values :
        \A m \in appendValue(Call(i), FALSE, v) :
          LET c == capacity_[i]
          IN /\ size_[i] < c => (m.call = NoCall /\ m.res = "ok" /\ m.cap = c)
             /\ m.call # NoCall =>
                  /\ size_[i] = c
                  /\ m.call.fn \in {"allocate", "reallocate"}
                  /\ m.res = "ok" =>
                       /\ m.cap >= c + ((c + 1) \div 2) + 1
                       /\ m.size = c + 1
                       /\ Len(CellsOf(m)) = m.cap

\* C16 happens: an append to a full buffer of one or more elements has
\* reallocated it, and left room for further appends.
C16_Witness ==
  /\ IsLive("A") /\ ~veloxRef_["A"] /\ Backed("A")
  /\ last.op = "appendValue" /\ last.res = "ok" /\ last.fn = "reallocate"
  /\ size_["A"] >= 2 /\ capacity_["A"] >= size_["A"] + 1

\* The outcomes of a call in which the capacity has grown.
Grown(i, outs) == {m \in outs : m.res # "fatal" /\ m.cap > capacity_[i]}

\* C17, as the specification has it: when extend, append(value), safeSet or
\* extendAppend grows the capacity because the new extent m (length +
\* additional, length + 1, offset + 1, offset + count) exceeds it, the
\* capacity after the call is m + floor((m + 1) / 2) + 1.  Stated of an
\* owned buffer whose capacity exists in memory.
C17_HeadroomOfExtent ==
  \A i \in Inst :
    (IsLive(i) /\ ~veloxRef_[i] /\ Backed(i)) =>
      LET c == Call(i)
      IN /\ \A n \in Args :
              size_[i] + n > capacity_[i] =>
                \A m \in Grown(i, extend(c, FALSE, n)) :
                  m.cap = HeadroomNoWrap(size_[i] + n)
         /\ \A v \in Values :
              size_[i] + 1 > capacity_[i] =>
                \A m \in Grown(i, appendValue(c, FALSE, v)) :
                  m.cap = HeadroomNoWrap(size_[i] + 1)
         /\ \A o \in Args, v \in Values :
              o + 1 > capacity_[i] =>
                \A m \in Grown(i, safeSet(c, FALSE, o, v)) :
                  m.cap = HeadroomNoWrap(o + 1)
         /\ \A o \in Offsets, sv \in Values, n \in Items :
              o + n > capacity_[i] =>
                \A m \in Grown(i, extendAppend(c, FALSE, o, SrcSeq(sv, Copied(n)), n)) :
                  m.cap = HeadroomNoWrap(o + n)

\* C17, amended: with the sums computed in uint64_t, a growth by extend or
\* extendAppend leaves the capacity m + (m + 1) / 2 + 1 for the new extent
\* m; a growth by append(value) leaves c + (c + 1) / 2 + 1 for the old
\* capacity c; a growth by safeSet leaves the larger of offset + 1 and
\* c + (c + 1) / 2 + 1.
C17_HeadroomOfCode ==
  \A i \in Inst :
    IsLive(i) =>
      LET c == Call(i)
          ref == veloxRef_[i]
      IN /\ \A n \in Args :
              \A m \in Grown(i, extend(c, ref, n)) :
                m.cap = Headroom(Add(size_[i], n))
         /\ \A v \in Values :
              \A m \in Grown(i, appendValue(c, ref, v)) :
                m.cap = Headroom(capacity_[i])
         /\ \A o \in Args, v \in Values :
              \A m \in Grown(i, safeSet(c, ref, o, v)) :
                m.cap = Max(Add(o, 1), Headroom(capacity_[i]))
         /\ \A o \in Offsets, sv \in Values, n \in Items :
              \A m \in Grown(i, extendAppend(c, ref, o, SrcSeq(sv, Copied(n)), n)) :
                m.cap = Headroom(Add(o, n))

\* C17 happens: extend(1) has grown an empty owned buffer to the capacity
\* 1 + (1 + 1) / 2 + 1.
C17_Witness ==
  /\ IsLive("A") /\ ~veloxRef_["A"] /\ Backed("A")
  /\ last.op = "extend" /\ last.res = "ok" /\ last.fn # "none"
  /\ size_["A"] = 0 /\ capacity_["A"] = HeadroomNoWrap(1)

\* C18: every reallocate and free of an owned instance names the block the
\* instance holds, which the pool has not got back, with the byte size the
\* block was last allocated or reallocated with; and once every instance is
\* destroyed, the pool has got back every block (stated of the blocks of one
\* or more bytes).
C18_PoolProtocol ==
  /\ \A i \in Inst :
       (IsLive(i) /\ ~veloxRef_[i]) =>
         \A m \in Outcomes(i) \cup clear(Call(i), FALSE) :
           m.call.fn \in {"reallocate", "free"} =>
             /\ m.call.ptr = buf_[i] /\ buf_[i] \in Blocks
             /\ heap[buf_[i]].live
             /\ m.call.old = heap[buf_[i]].bytes
  /\ (Running /\ \A i \in Inst : state[i] # "live")
       => \A p \in Blocks : ~(heap[p].live /\ heap[p].bytes > 0)

\* C19: when reserve fails fatally, because the instance is in aliasing mode
\* or because the pool returned null for a request of one or more bytes, the
\* instance's data, length and capacity are those of before the call, and a
\* clear that follows releases the block the instance held.  Stated of a
\* buffer of one or more elements.
C19_FailedReserveKeepsState ==
  \A i \in Inst :
    (IsLive(i) /\ capacity_[i] >= 1) =>
      \A c \in Args :
        c > capacity_[i] =>
          \A m \in reserve(Call(i), veloxRef_[i], c) :
            m.res = "fatal" =>
              /\ m.buf = buf_[i] /\ m.size = size_[i] /\ m.cap = capacity_[i]
              /\ (~veloxRef_[i] /\ buf_[i] # Null) =>
                   \A r \in clear(m, FALSE) : ~r.heap[buf_[i]].live

\* C20: in every state of an owned instance with capacity c > 0 the block
\* it holds has at least c * sizeof(T) bytes, as a product of integers, and
\* the length is not above what the block can hold.  Stated of an instance
\* whose data is non-null.
C20_AllocationHoldsCapacity ==
  \A i \in Inst :
    (IsLive(i) /\ ~veloxRef_[i] /\ capacity_[i] > 0 /\ buf_[i] # Null) =>
      /\ buf_[i] \in Blocks /\ heap[buf_[i]].live
      /\ heap[buf_[i]].bytes >= sizeInBytesNoWrap(capacity_[i])
      /\ heap[buf_[i]].bytes >= sizeInBytesNoWrap(size_[i])

====
